---- MODULE Spec2Model ----
(***************************************************************************)
(* A model of the HTTP request parser: the nom-based parsers of            *)
(* src/src/http.rs and the Request aggregate of src/src/http/request.rs.   *)
(* A byte is a number 0..255, a byte slice a sequence of bytes.  A parser  *)
(* result is a record: [ok |-> TRUE, rest, out] for Ok((rest, out)) and    *)
(* [ok |-> FALSE, kind] for Err(nom::Err::<kind>(..)).                     *)
(***************************************************************************)
EXTENDS Integers, Sequences, FiniteSets, TLC

VARIABLES
    self,     \* the Request: [method, path, version, headers, body]
    input,    \* the buffer handed to the last Request::parse call
    msg,      \* the parts that buffer was assembled from (history only)
    result,   \* what the last parse call returned; "none" before any call
    nparse,   \* parse calls made on this Request since Request::new
    call      \* the last direct call of a parser function: [fn, input, ret]

vars == <<self, input, msg, result, nparse, call>>

--------------------------------------------------------------------------
(* Bytes and byte slices                                                   *)

CR == 13
LF == 10
SP == 32
COLON == 58

CRLF == <<CR, LF>>

Drop(s, n) == SubSeq(s, n + 1, Len(s))
Take(s, n) == SubSeq(s, 1, n)

Bytes == 0..255

\* The length of the longest prefix of s whose bytes are all in set.
PrefixLen(set, s) ==
    CHOOSE n \in 0..Len(s) :
        /\ \A i \in 1..n : s[i] \in set
        /\ n = Len(s) \/ s[n + 1] \notin set

IsPrefix(t, s) == Len(t) <= Len(s) /\ Take(s, Len(t)) = t

\* Ord::cmp on byte slices: a > b, lexicographic, a proper prefix is smaller.
SliceGT(a, b) ==
    LET n == IF Len(a) < Len(b) THEN Len(a) ELSE Len(b)
        same == CHOOSE k \in 0..n :
                    /\ \A i \in 1..k : a[i] = b[i]
                    /\ k = n \/ a[k + 1] # b[k + 1]
    IN  IF same = n THEN Len(a) > Len(b) ELSE a[same + 1] > b[same + 1]

\* The element of a one-element set.  { e(x) : x \in {v} } has v evaluated
\* once, before e: the steps of a parser are written so where a later step
\* reads the outcome of an earlier one many times.
Only(S) == CHOOSE x \in S : TRUE

Error == [ok |-> FALSE, kind |-> "Error"]
Ok(rest, out) == [ok |-> TRUE, rest |-> rest, out |-> out]

--------------------------------------------------------------------------
(* nom combinators, complete mode, as the parsers below use them           *)

is_alphabetic(b) == (b >= 65 /\ b <= 90) \/ (b >= 97 /\ b <= 122)
is_digit(b) == b >= 48 /\ b <= 57
AlphaBytes == {b \in Bytes : is_alphabetic(b)}
DigitBytes == {b \in Bytes : is_digit(b)}

\* nom::character::complete::crlf
crlf(i) == IF IsPrefix(CRLF, i) THEN Ok(Drop(i, 2), CRLF) ELSE Error

\* nom::bytes::complete::tag
tag(t, i) == IF IsPrefix(t, i) THEN Ok(Drop(i, Len(t)), t) ELSE Error

\* nom::character::complete::char
char(c, i) == IF Len(i) > 0 /\ i[1] = c THEN Ok(Drop(i, 1), <<c>>) ELSE Error

\* nom::bytes::complete::is_not: one or more bytes outside the set
is_not(set, i) ==
    LET n == PrefixLen(Bytes \ set, i)
    IN  IF n = 0 THEN Error ELSE Ok(Drop(i, n), Take(i, n))

\* nom::character::complete::digit0: zero or more digits, never fails
digit0(i) ==
    LET n == PrefixLen(DigitBytes, i) IN Ok(Drop(i, n), Take(i, n))

\* nom::bytes::complete::take_while
take_while(set, i) ==
    LET n == PrefixLen(set, i) IN Ok(Drop(i, n), Take(i, n))

\* nom::bytes::complete::take_while1
take_while1(set, i) ==
    LET n == PrefixLen(set, i)
    IN  IF n = 0 THEN Error ELSE Ok(Drop(i, n), Take(i, n))

\* take_while_m_n that fails on a run longer than n.
take_while_m_n_strict(m, n, set, i) ==
    LET idx == PrefixLen(set, i)
    IN  IF idx < m \/ idx > n THEN Error ELSE Ok(Drop(i, idx), Take(i, idx))

\* nom::bytes::complete::take_while_m_n: at least m matching bytes are
\* needed; of a longer run the first n are taken and the rest is left.
take_while_m_n(m, n, set, i) ==
    LET idx == PrefixLen(set, i)
    IN  IF idx < m THEN Error
        ELSE IF idx <= n THEN Ok(Drop(i, idx), Take(i, idx))
        ELSE Ok(Drop(i, n), Take(i, n))

\* nom::bytes::complete::take
take(n, i) == IF Len(i) >= n THEN Ok(Drop(i, n), Take(i, n)) ELSE Error

\* nom::combinator::opt: an Error becomes Ok with nothing consumed
opt(r, i) == IF r.ok THEN r ELSE IF r.kind = "Error" THEN Ok(i, <<>>) ELSE r

\* nom::sequence::delimited(tag(" "), is_not(set), tag(close))
delimited_sp(set, close, i) ==
    LET a == tag(<<SP>>, i)
        b == is_not(set, a.rest)
        c == tag(close, b.rest)
    IN  IF ~a.ok THEN a
        ELSE IF ~b.ok THEN b
        ELSE IF ~c.ok THEN c
        ELSE Ok(c.rest, b.out)

--------------------------------------------------------------------------
(* src/src/http.rs                                                         *)

HEADER_NAME_MAP == <<
    0, 0, 0, 0, 0, 0, 0, 0, 0, 0, 0, 0, 0, 0, 0, 0,
    0, 0, 0, 0, 0, 0, 0, 0, 0, 0, 0, 0, 0, 0, 0, 0,
    0, 1, 0, 1, 1, 1, 1, 1, 0, 0, 1, 1, 0, 1, 1, 0,
    1, 1, 1, 1, 1, 1, 1, 1, 1, 1, 0, 0, 0, 0, 0, 0,
    0, 1, 1, 1, 1, 1, 1, 1, 1, 1, 1, 1, 1, 1, 1, 1,
    1, 1, 1, 1, 1, 1, 1, 1, 1, 1, 1, 0, 0, 0, 1, 1,
    1, 1, 1, 1, 1, 1, 1, 1, 1, 1, 1, 1, 1, 1, 1, 1,
    1, 1, 1, 1, 1, 1, 1, 1, 1, 1, 1, 0, 1, 0, 1, 0,
    0, 0, 0, 0, 0, 0, 0, 0, 0, 0, 0, 0, 0, 0, 0, 0,
    0, 0, 0, 0, 0, 0, 0, 0, 0, 0, 0, 0, 0, 0, 0, 0,
    0, 0, 0, 0, 0, 0, 0, 0, 0, 0, 0, 0, 0, 0, 0, 0,
    0, 0, 0, 0, 0, 0, 0, 0, 0, 0, 0, 0, 0, 0, 0, 0,
    0, 0, 0, 0, 0, 0, 0, 0, 0, 0, 0, 0, 0, 0, 0, 0,
    0, 0, 0, 0, 0, 0, 0, 0, 0, 0, 0, 0, 0, 0, 0, 0,
    0, 0, 0, 0, 0, 0, 0, 0, 0, 0, 0, 0, 0, 0, 0, 0,
    0, 0, 0, 0, 0, 0, 0, 0, 0, 0, 0, 0, 0, 0, 0, 0 >>

is_header_name_token(b) == HEADER_NAME_MAP[b + 1] = 1
HeaderNameBytes == {b \in Bytes : is_header_name_token(b)}

is_version(b) == (b >= 48 /\ b <= 57) \/ b = 46
VersionBytes == {b \in Bytes : is_version(b)}

\* Discards one CRLF if found, then digits if found, then takes the letters.
method(i) ==
    LET a == opt(crlf(i), i)
        b == opt(digit0(a.rest), a.rest)
    IN  take_while_m_n(3, 7, AlphaBytes, b.rest)

path(i) == delimited_sp({SP}, <<SP>>, i)

StrHTTP == <<72, 84, 84, 80, 47>>

version(i) ==
    LET a == tag(StrHTTP, i)
    IN  IF ~a.ok THEN a ELSE take_while1(VersionBytes, a.rest)

\* request_line with the closing CRLF checked for but left in the remainder.
request_line_keeps_crlf(i) ==
    LET m == method(i)
        p == path(m.rest)
        v == version(p.rest)
        e == crlf(v.rest)
    IN  IF ~m.ok THEN m
        ELSE IF ~p.ok THEN p
        ELSE IF ~v.ok THEN v
        ELSE IF ~e.ok THEN e
        ELSE Ok(v.rest, [method |-> m.out, path |-> p.out, version |-> v.out])

\* tuple((method, path, version, crlf)); out is the three slices.
request_line(i) ==
    LET m == method(i)
        p == path(m.rest)
        v == version(p.rest)
        e == crlf(v.rest)
    IN  IF ~m.ok THEN m
        ELSE IF ~p.ok THEN p
        ELSE IF ~v.ok THEN v
        ELSE IF ~e.ok THEN e
        ELSE Ok(e.rest, [method |-> m.out, path |-> p.out, version |-> v.out])

EMPTY_HEADER == [name |-> <<>>, value |-> <<>>]

\* header(input, &mut h): the result and the slot as the call leaves it.
\* The name is stored as soon as it is scanned, before the colon is looked
\* for; the value is stored only once the whole line has matched.
header(i, h) ==
    LET n  == take_while(HeaderNameBytes, i)
        h1 == [h EXCEPT !.name = n.out]
        c  == char(COLON, n.rest)
        v  == delimited_sp({CR, LF}, CRLF, c.rest)
    IN  IF ~c.ok THEN [ret |-> c, h |-> h1]
        ELSE IF ~v.ok THEN [ret |-> v, h |-> h1]
        ELSE [ret |-> Ok(v.rest, <<>>), h |-> [h1 EXCEPT !.value = v.out]]

\* body that hands back all that follows the CRLF, not only length bytes.
body_takes_all(length, i) ==
    LET a == crlf(i)
    IN  IF ~a.ok THEN a
        ELSE IF Len(a.rest) >= length THEN Ok(<<>>, a.rest) ELSE Error

body(length, i) ==
    LET a == crlf(i)
    IN  IF ~a.ok THEN a ELSE take(length, a.rest)

\* The loop of headers_iterator from slot k on: one header call per slot,
\* until the slots run out or a call returns Err.  An Err::Error ends the
\* loop with Ok and the position before the failed line; any other Err is
\* returned.
RECURSIVE headers_loop(_, _, _)
headers_loop(i, headers, k) ==
    IF k > Len(headers) THEN [ret |-> Ok(i, <<>>), headers |-> headers]
    ELSE Only({ LET hs == [headers EXCEPT ![k] = r.h]
                IN  IF r.ret.ok THEN headers_loop(r.ret.rest, hs, k + 1)
                    ELSE IF r.ret.kind = "Error"
                         THEN [ret |-> Ok(i, <<>>), headers |-> hs]
                         ELSE [ret |-> r.ret, headers |-> hs]
                : r \in {header(i, headers[k])} })

\* A collection that reports a line it cannot read, unless that line is the
\* blank line or the end of the input.
headers_iterator_strict(i, headers) ==
    Only({ IF r.ret.ok /\ r.ret.rest # <<>> /\ ~IsPrefix(CRLF, r.ret.rest)
           THEN [ret |-> [ok |-> FALSE, kind |-> "Failure"],
                 headers |-> r.headers]
           ELSE r
           : r \in {headers_loop(i, headers, 1)} })

headers_iterator(i, headers) == headers_loop(i, headers, 1)

--------------------------------------------------------------------------
(* std: str::from_utf8 and str::parse::<usize>, as Request::parse uses them *)

IsCont(s, k) == k <= Len(s) /\ s[k] >= 128 /\ s[k] <= 191
InRange(s, k, lo, hi) == k <= Len(s) /\ s[k] >= lo /\ s[k] <= hi

\* core::str::from_utf8 succeeds on s from position k on.
RECURSIVE utf8_valid_from(_, _)
utf8_valid_from(s, k) ==
    IF k > Len(s) THEN TRUE
    ELSE LET b == s[k] IN
         IF b < 128 THEN utf8_valid_from(s, k + 1)
         ELSE IF b >= 194 /\ b <= 223
              THEN IsCont(s, k + 1) /\ utf8_valid_from(s, k + 2)
         ELSE IF b = 224
              THEN InRange(s, k + 1, 160, 191) /\ IsCont(s, k + 2)
                   /\ utf8_valid_from(s, k + 3)
         ELSE IF (b >= 225 /\ b <= 236) \/ b = 238 \/ b = 239
              THEN IsCont(s, k + 1) /\ IsCont(s, k + 2)
                   /\ utf8_valid_from(s, k + 3)
         ELSE IF b = 237
              THEN InRange(s, k + 1, 128, 159) /\ IsCont(s, k + 2)
                   /\ utf8_valid_from(s, k + 3)
         ELSE IF b = 240
              THEN InRange(s, k + 1, 144, 191) /\ IsCont(s, k + 2)
                   /\ IsCont(s, k + 3) /\ utf8_valid_from(s, k + 4)
         ELSE IF b >= 241 /\ b <= 243
              THEN IsCont(s, k + 1) /\ IsCont(s, k + 2)
                   /\ IsCont(s, k + 3) /\ utf8_valid_from(s, k + 4)
         ELSE IF b = 244
              THEN InRange(s, k + 1, 128, 143) /\ IsCont(s, k + 2)
                   /\ IsCont(s, k + 3) /\ utf8_valid_from(s, k + 4)
         ELSE FALSE

from_utf8_ok(s) == utf8_valid_from(s, 1)

\* usize::MAX of a 64-bit target, 18446744073709551615, as ASCII digits: the
\* number itself is beyond the integers of the model checker.
usize_MAX_digits ==
    <<49, 56, 52, 52, 54, 55, 52, 52, 48, 55, 51, 55, 48, 57, 53, 53, 49, 54, 49, 53>>

RECURSIVE decimal(_, _)
decimal(d, acc) ==
    IF d = <<>> THEN acc ELSE decimal(Drop(d, 1), 10 * acc + (d[1] - 48))

\* str::parse::<usize>: an optional '+', then one or more digits, nothing
\* else; Err on an empty string, a lone sign, any other byte (a '-', a
\* space) or a number above usize::MAX.
parse_usize(s) ==
    LET d   == IF Len(s) > 0 /\ s[1] = 43 THEN Drop(s, 1) ELSE s
        sig == Drop(d, PrefixLen({48}, d))
        big == \/ Len(sig) > Len(usize_MAX_digits)
               \/ Len(sig) = Len(usize_MAX_digits) /\ SliceGT(sig, usize_MAX_digits)
    IN  IF d = <<>> \/ PrefixLen(DigitBytes, d) < Len(d) \/ big
        THEN [ok |-> FALSE]
        ELSE [ok |-> TRUE, val |-> decimal(sig, 0)]

--------------------------------------------------------------------------
(* src/src/http/request.rs                                                 *)

StrContentLength ==
    <<67, 111, 110, 116, 101, 110, 116, 45, 76, 101, 110, 103, 116, 104>>
StrTransferEncoding ==
    <<84, 114, 97, 110, 115, 102, 101, 114, 45, 69, 110, 99, 111, 100, 105, 110, 103>>
StrZero == <<48>>

\* Request::new(headers) with Default for every other field.
Request_new(headers) ==
    [method |-> <<>>, path |-> <<>>, version |-> <<>>,
     headers |-> headers, body |-> <<>>]

IsEmptySlot(h) == Len(h.name) = 0 /\ Len(h.value) = 0

\* Request::headers(): length starts at 0 and is set to the index of the
\* first blank entry; with no blank entry it stays 0.
Request_headers(s) ==
    LET blank == {k \in 1..Len(s.headers) : IsEmptySlot(s.headers[k])}
        first == CHOOSE k \in blank : \A j \in blank : k <= j
    IN  IF blank = {} THEN <<>> ELSE Take(s.headers, first - 1)

\* The closure without its test of the Content-Length value.
BodyHeaderTest_AnyValue(h) ==
    h.name = StrContentLength \/ h.name = StrTransferEncoding

\* The closure given to find() in Request::parse.
BodyHeaderTest(h) ==
    \/ h.name = StrContentLength /\ SliceGT(h.value, StrZero)
    \/ h.name = StrTransferEncoding

\* find() that looks for a Content-Length header first, of any position,
\* and for Transfer-Encoding only when there is none.
FindBodyHeader_PrefersContentLength(headers) ==
    LET cl == {k \in 1..Len(headers) :
                  /\ headers[k].name = StrContentLength
                  /\ SliceGT(headers[k].value, StrZero)}
        te == {k \in 1..Len(headers) : headers[k].name = StrTransferEncoding}
    IN  IF cl # {} THEN CHOOSE k \in cl : \A j \in cl : k <= j
        ELSE IF te # {} THEN CHOOSE k \in te : \A j \in te : k <= j
        ELSE 0

\* self.headers.iter().find(..): the index of the first slot of the whole
\* array that passes the test, 0 for None.
FindBodyHeader(headers) ==
    LET hit == {k \in 1..Len(headers) : BodyHeaderTest(headers[k])}
    IN  IF hit = {} THEN 0 ELSE CHOOSE k \in hit : \A j \in hit : k <= j

\* The content phase with the body reset whenever extraction fails.
ContentPhase_ClearsBody(s, h, unparsed) ==
    IF h.name = StrContentLength
    THEN IF ~from_utf8_ok(h.value)
         THEN [self |-> [s EXCEPT !.body = <<>>], result |-> "InvalidUtf8Content"]
         ELSE LET length == parse_usize(h.value) IN
              IF ~length.ok
              THEN [self |-> [s EXCEPT !.body = <<>>], result |-> "ContentLength"]
              ELSE LET b == body(length.val, unparsed) IN
                   IF b.ok
                   THEN [self |-> [s EXCEPT !.body = b.out], result |-> "Ok"]
                   ELSE [self |-> [s EXCEPT !.body = <<>>], result |-> "Body"]
    ELSE [self |-> s, result |-> "Ok"]

\* The content phase of Request::parse on the found header: the Request it
\* leaves and what parse returns.
ContentPhase(s, h, unparsed) ==
    IF h.name = StrContentLength
    THEN IF ~from_utf8_ok(h.value)
         THEN [self |-> s, result |-> "InvalidUtf8Content"]
         ELSE LET length == parse_usize(h.value) IN
              IF ~length.ok
              THEN [self |-> s, result |-> "ContentLength"]
              ELSE LET b == body(length.val, unparsed) IN
                   IF b.ok
                   THEN [self |-> [s EXCEPT !.body = b.out], result |-> "Ok"]
                   ELSE [self |-> s, result |-> "Body"]
    ELSE [self |-> s, result |-> "Ok"]

\* Request::parse(&mut self, input): the Request it leaves and its result.
HeadersPhase(s1, unparsed) ==
    Only({ LET s2 == [s1 EXCEPT !.headers = hi.headers] IN
           IF ~hi.ret.ok THEN [self |-> s2, result |-> "Headers"]
           ELSE Only({ IF k = 0 THEN [self |-> s2, result |-> "Ok"]
                       ELSE ContentPhase(s2, hi.headers[k], hi.ret.rest)
                       : k \in {FindBodyHeader(hi.headers)} })
           : hi \in {headers_iterator(unparsed, s1.headers)} })

Request_parse(s, i) ==
    Only({ IF ~rl.ok THEN [self |-> s, result |-> "RequestLine"]
           ELSE HeadersPhase([s EXCEPT !.method = rl.out.method,
                                       !.path = rl.out.path,
                                       !.version = rl.out.version], rl.rest)
           : rl \in {request_line(i)} })

--------------------------------------------------------------------------
(* The buffers the model hands to the parsers                              *)

MaxCap == 2       \* the largest header array handed to Request::new
MaxFill == 3      \* the most plain header lines at the head of a message
MaxParses == 2    \* the most parse calls made on one Request
MaxLetters == 9   \* the longest run of letters given to method

Cat3(a, b, c) == a \o b \o c

\* A header line as the grammar wants it: name ":" SP value CRLF.
HeaderLine(n, v) == n \o <<COLON, SP>> \o v \o CRLF

StrHost == <<72, 111, 115, 116>>
StrX == <<88>>
StrFoo == <<70, 111, 111>>
StrChunked == <<99, 104, 117, 110, 107, 101, 100>>
StrGET == <<71, 69, 84>>
StrSlash == <<47>>
Str11 == <<49, 46, 49>>
Payload == <<97, 98, 99>>

\* The j-th plain line: Host or X in turn, the value a letter of its own.
FillName(j) == IF j % 2 = 1 THEN StrHost ELSE StrX
FillValue(j) == <<96 + j>>
FillLine(j) == HeaderLine(FillName(j), FillValue(j))
Fill(k) == [j \in 1..k |-> FillLine(j)]

\* Content-Length values: numbers, zeros, text, signs, a leading space, a
\* byte that is no UTF-8, and usize::MAX + 1 = 18446744073709551616.
ClTwo == <<50>>
ClOne == <<49>>
ClOverflow ==
    <<49, 56, 52, 52, 54, 55, 52, 52, 48, 55, 51, 55, 48, 57, 53, 53, 49, 54, 49, 54>>
ClNumbers == {ClOne, ClTwo, <<48, 50>>}
ClZeros == {<<48>>, <<48, 48>>, <<48, 48, 48>>}
ClText == {<<97, 98, 99>>, <<45, 49>>, <<43, 53>>, <<SP, 53>>, <<50, 120>>}
ClNotUtf8 == {<<255>>, <<33, 255>>}
ClValues == ClNumbers \cup ClZeros \cup ClText \cup ClNotUtf8 \cup {ClOverflow}

ClLine(v) == HeaderLine(StrContentLength, v)
TeLine == HeaderLine(StrTransferEncoding, StrChunked)

\* Lines the header grammar rejects, and one it accepts with an empty name.
NoColonLine(n) == n \o CRLF
NoValueLine == StrFoo \o <<COLON>> \o CRLF
BlankValueLine == StrFoo \o <<COLON, SP>> \o CRLF
EmptyNameLine == <<COLON, SP, 118>> \o CRLF
RejectedLines ==
    {NoColonLine(StrFoo), NoColonLine(StrContentLength),
     NoColonLine(StrTransferEncoding), NoValueLine, BlankValueLine}

BodyLines == {ClLine(v) : v \in ClValues} \cup {TeLine}

Tails == {<<>>, CRLF, CRLF \o <<97>>, CRLF \o Payload, Payload}

ValidRequestLine(m, t, v) == m \o <<SP>> \o t \o <<SP>> \o StrHTTP \o v \o CRLF
PlainRequestLine == ValidRequestLine(StrGET, StrSlash, Str11)

\* A run of n letters, upper and lower case in turn.
Letters(n) == [j \in 1..n |-> IF j % 2 = 1 THEN 64 + j ELSE 96 + j]

Methods == {StrGET, Letters(5), Letters(7)}
Targets == {StrSlash, <<47, 120, 63, 58>>, <<42, CR, LF>>}
Versions == {Str11, <<50>>, <<46, 46>>}

\* Request lines the grammar rejects, and two it accepts after discarding
\* a leading CRLF and digits.
OddRequestLines ==
    {<<>>,
     ValidRequestLine(Letters(2), StrSlash, Str11),
     ValidRequestLine(Letters(8), StrSlash, Str11),
     StrGET \o StrSlash \o <<SP>> \o StrHTTP \o Str11 \o CRLF,
     StrGET \o <<SP, SP>> \o StrHTTP \o Str11 \o CRLF,
     StrGET \o <<SP>> \o StrSlash \o <<SP>> \o <<104, 116, 116, 112, 47>> \o Str11 \o CRLF,
     StrGET \o <<SP>> \o StrSlash \o <<SP>> \o StrHTTP \o CRLF,
     StrGET \o <<SP>> \o StrSlash \o <<SP>> \o StrHTTP \o Str11 \o <<LF>>,
     StrGET \o <<SP>> \o StrSlash \o <<SP>> \o StrHTTP \o Str11,
     CRLF \o PlainRequestLine,
     <<49, 50>> \o PlainRequestLine}

\* A message in parts: the request line, the header lines, what follows.
Message(rl, lines, tail) == [reqline |-> rl, lines |-> lines, tail |-> tail]

RECURSIVE Concat(_)
Concat(ss) == IF ss = <<>> THEN <<>> ELSE Head(ss) \o Concat(Tail(ss))

Wire(m) == Cat3(m.reqline, Concat(m.lines), m.tail)

\* Plain lines, then at most one line of interest, then at most one body
\* header more.
HeaderBlocks ==
    {Fill(k) : k \in 0..MaxFill}
    \cup {Fill(k) \o <<l>> : k \in 0..MaxFill, l \in BodyLines}
    \cup {Fill(k) \o <<l, p>> : k \in 0..MaxFill, l \in BodyLines,
                                p \in {TeLine, ClLine(ClTwo)}}
    \cup {Fill(k) \o <<l>> : k \in 0..MaxFill,
                             l \in RejectedLines \cup {EmptyNameLine}}
    \cup {Fill(k) \o <<EmptyNameLine, FillLine(1)>> : k \in 0..1}

Messages ==
    {Message(PlainRequestLine, ls, t) : ls \in HeaderBlocks, t \in Tails}
    \cup {Message(ValidRequestLine(m, t, v), ls, tl) :
            m \in Methods, t \in Targets, v \in Versions,
            ls \in {<<>>, Fill(1)}, tl \in {<<>>, CRLF \o Payload}}
    \cup {Message(rl, Fill(1), CRLF) : rl \in OddRequestLines}

\* What a Request that has parsed before is given: a request line that
\* fails and one that parses, header blocks that leave slots of the earlier
\* call standing, and Content-Length headers that fail in each way.
ReuseMessages ==
    {Message(rl, <<>>, CRLF) : rl \in {<<>>, ValidRequestLine(Letters(5), StrSlash, <<50>>)}}
    \cup {Message(PlainRequestLine, ls, t) :
            ls \in {<<>>, Fill(1), <<NoColonLine(StrFoo)>>, <<NoColonLine(StrContentLength)>>},
            t \in {CRLF \o Payload}}
    \cup {Message(PlainRequestLine, <<ClLine(v)>>, t) :
            v \in {ClOne, <<97, 98, 99>>, <<255>>}, t \in {<<>>, CRLF \o Payload}}

InputsFor(n) == IF n = 0 THEN Messages ELSE ReuseMessages

\* What method is given directly: chunks a caller may find before the
\* method, a run of letters, and what follows it.
Chunks == {CRLF, <<49>>, <<CR>>}
Prefixes ==
    {<<>>} \cup Chunks \cup {a \o b : a \in Chunks, b \in Chunks}
MethodInputs ==
    {Cat3(p, Letters(n), a) :
        p \in Prefixes, n \in 0..MaxLetters,
        a \in {<<>>, <<SP, 47>>, <<49>>, CRLF}}

HeaderInputs ==
    {l \o t : l \in BodyLines \cup RejectedLines
                    \cup {EmptyNameLine, FillLine(1), FillLine(2), <<>>, CRLF},
              t \in {<<>>, CRLF, FillLine(1)}}

--------------------------------------------------------------------------
(* The state machine                                                       *)

NoMessage == Message(<<>>, <<>>, <<>>)
NoCall == [fn |-> "none", input |-> <<>>, ret |-> Error]

Caps == 0..MaxCap

Init ==
    /\ \E c \in Caps : self = Request_new([k \in 1..c |-> EMPTY_HEADER])
    /\ input = <<>>
    /\ msg = NoMessage
    /\ result = "none"
    /\ nparse = 0
    /\ call = NoCall

\* let mut headers = [EMPTY_HEADER; c]; Request::new(&mut headers)
New ==
    /\ nparse > 0
    /\ \E c \in Caps : self' = Request_new([k \in 1..c |-> EMPTY_HEADER])
    /\ input' = <<>>
    /\ msg' = NoMessage
    /\ result' = "none"
    /\ nparse' = 0
    /\ UNCHANGED call

\* request.parse(input)
Parse ==
    /\ nparse < MaxParses
    /\ \E m \in InputsFor(nparse) : \E r \in {Request_parse(self, Wire(m))} :
        /\ self' = r.self
        /\ result' = r.result
        /\ input' = Wire(m)
        /\ msg' = m
    /\ nparse' = nparse + 1
    /\ UNCHANGED call

Next == New \/ Parse

Spec == Init /\ [][Next]_vars

\* http::parse::method(input)
CallMethod ==
    /\ \E i \in MethodInputs :
        call' = [fn |-> "method", input |-> i, ret |-> method(i)]
    /\ UNCHANGED <<self, input, msg, result, nparse>>

\* http::parse::header(input, &mut EMPTY_HEADER)
CallHeader ==
    /\ \E i \in HeaderInputs :
        LET r == header(i, EMPTY_HEADER) IN
        call' = [fn |-> "header", input |-> i, ret |-> r.ret, h |-> r.h]
    /\ UNCHANGED <<self, input, msg, result, nparse>>

NextFn == CallMethod \/ CallHeader

SpecFn == Init /\ [][NextFn]_vars

--------------------------------------------------------------------------
(* What the properties say of a message, read off its parts and not off    *)
(* the parsers                                                             *)

Min(a, b) == IF a < b THEN a ELSE b

\* l is name ":" SP value CRLF: a name of token bytes (none is allowed),
\* a value of one or more bytes that are neither CR nor LF.
AcceptedLine(l) ==
    \E c \in 1..Len(l) :
        /\ \A i \in 1..(c - 1) : is_header_name_token(l[i])
        /\ l[c] = COLON
        /\ Len(l) >= c + 4
        /\ l[c + 1] = SP
        /\ \A i \in (c + 2)..(Len(l) - 2) : l[i] \notin {CR, LF}
        /\ l[Len(l) - 1] = CR /\ l[Len(l)] = LF

ColonAt(l) == CHOOSE c \in 1..Len(l) : l[c] = COLON /\ \A i \in 1..(c - 1) : l[i] # COLON
LineName(l) == Take(l, ColonAt(l) - 1)
LineValue(l) == SubSeq(l, ColonAt(l) + 2, Len(l) - 2)
LinePair(l) == [name |-> LineName(l), value |-> LineValue(l)]

WellFormedLine(l) == AcceptedLine(l) /\ LineName(l) # <<>>

IsBodyName(n) == n = StrContentLength \/ n = StrTransferEncoding

\* The message opens with METHOD SP TARGET SP "HTTP/" VERSION CRLF: the
\* ways to cut its request line into such parts (there is at most one).
RequestLineParts(rl) ==
    {p \in [a : 3..7, b : 1..Len(rl)] :
        /\ Len(rl) >= p.b + 8 /\ p.b >= p.a + 3
        /\ \A i \in 1..p.a : is_alphabetic(rl[i])
        /\ rl[p.a + 1] = SP
        /\ \A i \in (p.a + 2)..(p.b - 1) : rl[i] # SP
        /\ rl[p.b] = SP
        /\ SubSeq(rl, p.b + 1, p.b + 5) = StrHTTP
        /\ \A i \in (p.b + 6)..(Len(rl) - 2) : is_version(rl[i])
        /\ rl[Len(rl) - 1] = CR /\ rl[Len(rl)] = LF}

ValidForm(rl) == RequestLineParts(rl) # {}
PartsOf(rl) == CHOOSE p \in RequestLineParts(rl) : TRUE
MethodOf(rl) == Take(rl, PartsOf(rl).a)
TargetOf(rl) == SubSeq(rl, PartsOf(rl).a + 2, PartsOf(rl).b - 1)
VersionOf(rl) == SubSeq(rl, PartsOf(rl).b + 6, Len(rl) - 2)

Capacity == Len(self.headers)

\* The header lines at the head of the message that the grammar accepts,
\* and how many of them an array of the Request's capacity takes.
LeadingAccepted(m) ==
    CHOOSE n \in 0..Len(m.lines) :
        /\ \A j \in 1..n : AcceptedLine(m.lines[j])
        /\ n = Len(m.lines) \/ ~AcceptedLine(m.lines[n + 1])
Collected(m) == Min(Capacity, LeadingAccepted(m))
AfterHeaders(m) == Concat(Drop(m.lines, Collected(m))) \o m.tail

FirstPairs(m, k) == [j \in 1..k |-> LinePair(m.lines[j])]

Fresh == nparse = 1
Parsed == nparse >= 1

--------------------------------------------------------------------------
(* C1: with a fresh header array of capacity C and a message of H > C      *)
(* well-formed header lines, none of the first C named Content-Length or   *)
(* Transfer-Encoding, parse succeeds and headers() is exactly the first C  *)
(* header lines in order.                                                  *)

C1_Case ==
    /\ Fresh
    /\ ValidForm(msg.reqline)
    /\ \A j \in 1..Len(msg.lines) : WellFormedLine(msg.lines[j])
    /\ Len(msg.lines) > Capacity
    /\ \A j \in 1..Capacity : ~IsBodyName(LineName(msg.lines[j]))

\* C1: success, and headers() is the first C header lines.
C1_ExcessHeadersTruncated ==
    C1_Case =>
        /\ result = "Ok"
        /\ Request_headers(self) = FirstPairs(msg, Capacity)

(* C2: after parse on a fresh Request the populated slots are the prefix   *)
(* [0, k), k the number of header lines the header-field parser accepted:  *)
(* headers() is those k pairs in order, every slot from k on is still the  *)
(* empty sentinel, and a rejected line leaves its slot untouched.          *)

C2_Case == Fresh /\ ValidForm(msg.reqline)

\* C2: headers() is the k accepted lines, the slots from k on are blank.
C2_PopulatedPrefix ==
    C2_Case =>
        /\ Request_headers(self) = FirstPairs(msg, Collected(msg))
        /\ \A j \in (Collected(msg) + 1)..Capacity : self.headers[j] = EMPTY_HEADER

(* C3: for every request line METHOD SP TARGET SP "HTTP/" VERSION CRLF     *)
(* (METHOD 3 to 7 letters, TARGET one or more bytes other than space,      *)
(* VERSION one or more of 0-9 and '.'), request_line and Request::parse    *)
(* recover exactly METHOD, TARGET and VERSION, and the remainder is        *)
(* exactly the input after the closing CRLF.                               *)

C3_Case == Parsed /\ ValidForm(msg.reqline)

\* C3: the three parts are recovered and nothing past the CRLF is consumed.
C3_RequestLineRecovered ==
    C3_Case =>
        LET rl == request_line(input) IN
        /\ rl.ok
        /\ rl.out = [method |-> MethodOf(msg.reqline),
                     path |-> TargetOf(msg.reqline),
                     version |-> VersionOf(msg.reqline)]
        /\ rl.rest = Concat(msg.lines) \o msg.tail
        /\ result # "RequestLine"
        /\ self.method = MethodOf(msg.reqline)
        /\ self.path = TargetOf(msg.reqline)
        /\ self.version = VersionOf(msg.reqline)

C3_Witness ==
    /\ C3_Case
    /\ Len(MethodOf(msg.reqline)) = 7
    /\ \E i \in 1..Len(TargetOf(msg.reqline)) : TargetOf(msg.reqline)[i] = CR
    /\ msg.tail # <<>>
    /\ result = "Ok"

(* C4: when the body decision selects a Content-Length header whose value  *)
(* is the decimal integer n >= 1, the input left after the header block    *)
(* decides: CRLF and at least n bytes give success and a body of exactly   *)
(* the first n bytes after the CRLF; otherwise parse returns Body.         *)

AllDigits(v) == v # <<>> /\ \A i \in 1..Len(v) : is_digit(v[i])
Significant(v) == Drop(v, PrefixLen({48}, v))
DenotesPositive(v) == AllDigits(v) /\ Significant(v) # <<>>
DenotesZero(v) == AllDigits(v) /\ Significant(v) = <<>>
FitsUsize(v) ==
    \/ Len(Significant(v)) < Len(usize_MAX_digits)
    \/ /\ Len(Significant(v)) = Len(usize_MAX_digits)
       /\ ~SliceGT(Significant(v), usize_MAX_digits)

\* No buffer of the model holds 10^9 bytes: a longer number is never met.
Countable(v) == Len(Significant(v)) <= 9
Number(v) == decimal(Significant(v), 0)
HasBody(r, v) == IsPrefix(CRLF, r) /\ Countable(v) /\ Len(r) - 2 >= Number(v)
BodyOf(r, v) == SubSeq(r, 3, 2 + Number(v))

\* The slot the body decision selects: the first of the whole array named
\* Content-Length with a value above "0", or named Transfer-Encoding.
SelectedSlots ==
    {k \in 1..Capacity :
        \/ self.headers[k].name = StrContentLength
           /\ SliceGT(self.headers[k].value, StrZero)
        \/ self.headers[k].name = StrTransferEncoding}
SelectedSlot == CHOOSE k \in SelectedSlots : \A j \in SelectedSlots : k <= j
ReachedBodyDecision == Parsed /\ result \notin {"RequestLine", "Headers"}
SelectsContentLength ==
    /\ ReachedBodyDecision
    /\ SelectedSlots # {}
    /\ self.headers[SelectedSlot].name = StrContentLength
SelectedValue == self.headers[SelectedSlot].value

ExtractionOutcome(v) ==
    IF HasBody(AfterHeaders(msg), v)
    THEN result = "Ok" /\ self.body = BodyOf(AfterHeaders(msg), v)
    ELSE result = "Body"

\* C4 as stated, for every decimal integer n >= 1.
C4_AnyInteger ==
    (SelectsContentLength /\ DenotesPositive(SelectedValue))
        => ExtractionOutcome(SelectedValue)

\* C4 for the integers a usize holds; a larger one gives ContentLength.
C4_UsizeInteger ==
    (SelectsContentLength /\ DenotesPositive(SelectedValue)) =>
        IF FitsUsize(SelectedValue)
        THEN ExtractionOutcome(SelectedValue)
        ELSE result = "ContentLength"

C4_Witness ==
    /\ SelectsContentLength
    /\ DenotesPositive(SelectedValue)
    /\ result = "Ok"
    /\ Len(self.body) = 2
    /\ Len(AfterHeaders(msg)) > 4

(* C5: on a fresh Request, a valid request line and no header line named   *)
(* Content-Length or Transfer-Encoding give success and an empty body,     *)
(* whatever follows the header block.                                      *)

C5_Case ==
    /\ Fresh
    /\ ValidForm(msg.reqline)
    /\ \A j \in 1..Len(msg.lines) :
          AcceptedLine(msg.lines[j]) => ~IsBodyName(LineName(msg.lines[j]))

\* C5: success and an empty body.
C5_NoBodyHeaderNoBody == C5_Case => (result = "Ok" /\ self.body = <<>>)

C5_Witness ==
    /\ C5_Case
    /\ Len(msg.lines) >= 2
    /\ msg.tail = CRLF \o Payload
    /\ result = "Ok"

(* C6: with a valid request line and a Content-Length header (and no       *)
(* Transfer-Encoding header), every Content-Length value that is not an    *)
(* unsigned decimal integer makes parse fail: InvalidUtf8Content when it   *)
(* is not UTF-8, ContentLength when it is UTF-8 and not numeric; none is   *)
(* accepted as 'no body'.                                                  *)

ClLines(m) ==
    {j \in 1..Len(m.lines) :
        AcceptedLine(m.lines[j]) /\ LineName(m.lines[j]) = StrContentLength}
TeLines(m) ==
    {j \in 1..Len(m.lines) :
        AcceptedLine(m.lines[j]) /\ LineName(m.lines[j]) = StrTransferEncoding}

\* A fresh Request, a valid request line, one Content-Length header, which
\* the header array has room for, and no Transfer-Encoding header.
OnlyContentLength ==
    /\ Fresh
    /\ ValidForm(msg.reqline)
    /\ Cardinality(ClLines(msg)) = 1
    /\ TeLines(msg) = {}
    /\ \A j \in ClLines(msg) : j <= Collected(msg)
TheContentLength == LineValue(msg.lines[CHOOSE j \in ClLines(msg) : TRUE])

\* C6: a value that is not all digits gives ContentLength, or
\* InvalidUtf8Content when it is not UTF-8.
C6_NonNumericRejected ==
    (OnlyContentLength /\ ~AllDigits(TheContentLength)) =>
        result = IF from_utf8_ok(TheContentLength)
                 THEN "ContentLength" ELSE "InvalidUtf8Content"

(* C7: parse runs request line, headers, body decision in that order and   *)
(* stops at the first failure.  A request line that does not parse gives   *)
(* RequestLine and leaves method, path, version, every header slot and     *)
(* body as they were; when a later phase fails (Body, ContentLength,       *)
(* InvalidUtf8Content) method, path and version hold what this input's     *)
(* request line gave and body is as it was before the call.                *)

\* C7: over every parse call, what a failing call leaves behind.
C7_FailureLeaves ==
    [][ nparse' = nparse + 1 =>
          LET rl == request_line(input') IN
          /\ ~rl.ok => result' = "RequestLine"
          /\ result' = "RequestLine" => (~rl.ok /\ self' = self)
          /\ result' \in {"Body", "ContentLength", "InvalidUtf8Content"} =>
                /\ rl.ok
                /\ self'.method = rl.out.method
                /\ self'.path = rl.out.path
                /\ self'.version = rl.out.version
                /\ self'.body = self.body ]_vars

C7_Witness ==
    /\ nparse = 2
    /\ result = "Body"
    /\ self.body # <<>>
    /\ self.method = StrGET

(* C8: whenever the populated headers hold a header named Content-Length   *)
(* with a value byte-wise above "0", parse performs body extraction with   *)
(* that value (a body of that length, or InvalidUtf8Content, ContentLength *)
(* or Body), whether or not a Transfer-Encoding header is present and in   *)
(* whatever order; the Transfer-Encoding no-op happens only when there is  *)
(* no such Content-Length header.                                          *)

ClSlots ==
    {k \in 1..Capacity :
        /\ self.headers[k].name = StrContentLength
        /\ SliceGT(self.headers[k].value, StrZero)}
FirstClSlot == CHOOSE k \in ClSlots : \A j \in ClSlots : k <= j

ContentOutcome(v) ==
    IF ~from_utf8_ok(v) THEN result = "InvalidUtf8Content"
    ELSE IF ~AllDigits(v) \/ ~FitsUsize(v) THEN result = "ContentLength"
    ELSE ExtractionOutcome(v)

\* C8 as stated: the Content-Length header decides, in any order.
C8_ContentLengthAlwaysWins ==
    (ReachedBodyDecision /\ ClSlots # {})
        => ContentOutcome(self.headers[FirstClSlot].value)

\* C8, first match wins: a Content-Length header
\* is extracted from when no Transfer-Encoding header stands in an earlier
\* slot; when one does, parse succeeds and captures no body.
C8_FirstMatchWins ==
    (ReachedBodyDecision /\ SelectedSlots # {}) =>
        IF self.headers[SelectedSlot].name = StrContentLength
        THEN ContentOutcome(SelectedValue)
        ELSE result = "Ok" /\ (Fresh => self.body = <<>>)

C8_Witness ==
    /\ Fresh
    /\ ReachedBodyDecision
    /\ ClSlots # {}
    /\ SelectedSlot < FirstClSlot
    /\ HasBody(AfterHeaders(msg), self.headers[FirstClSlot].value)
    /\ result = "Ok"
    /\ self.body = <<>>

(* C9: method succeeds only when, after at most one leading CRLF and then  *)
(* any leading digits are discarded, the input begins with a run of 3 to 7 *)
(* letters, and it returns that whole run; it fails when the run is        *)
(* shorter than 3 or longer than 7.                                        *)

Stripped(i) ==
    LET a == IF IsPrefix(CRLF, i) THEN Drop(i, 2) ELSE i
    IN  Drop(a, PrefixLen(DigitBytes, a))
LetterRun(i) == Take(Stripped(i), PrefixLen(AlphaBytes, Stripped(i)))

\* C9 as stated: success only on a run of 3 to 7 letters.
C9_ThreeToSevenOnly ==
    call.fn = "method" =>
        LET run == LetterRun(call.input) IN
        /\ call.ret.ok => (Len(run) >= 3 /\ Len(run) <= 7 /\ call.ret.out = run)
        /\ (Len(run) < 3 \/ Len(run) > 7) => ~call.ret.ok

\* C9: method fails exactly on a run shorter than 3; of a run longer than 7 it
\* returns the first 7 letters and leaves the rest unconsumed.
C9_AtLeastThreeFirstSeven ==
    call.fn = "method" =>
        LET run == LetterRun(call.input) IN
        /\ call.ret.ok <=> Len(run) >= 3
        /\ call.ret.ok =>
              /\ call.ret.out = Take(run, Min(7, Len(run)))
              /\ call.ret.rest = Drop(Stripped(call.input), Min(7, Len(run)))

C9_Witness ==
    /\ call.fn = "method"
    /\ IsPrefix(CRLF \o <<49>>, call.input)
    /\ Len(LetterRun(call.input)) = 8
    /\ call.ret.ok
    /\ Len(call.ret.out) = 7
    /\ Len(call.ret.rest) > 1

(* C10: for a Content-Length value of decimal digits only the body         *)
(* decision agrees with the number: extraction, and with it the need of a  *)
(* CRLF after the header block, is triggered exactly when the number is    *)
(* above zero; "0", "00" and "000" never trigger it, and parse succeeds    *)
(* with an empty body.                                                     *)

\* C10: a value denoting zero gives success and no body; a positive one
\* that a usize holds gives the outcome of extraction.
C10_ZeroNeverExtracts ==
    (OnlyContentLength /\ AllDigits(TheContentLength)) =>
        IF DenotesZero(TheContentLength)
        THEN result = "Ok" /\ self.body = <<>>
        ELSE FitsUsize(TheContentLength) => ExtractionOutcome(TheContentLength)

(* C11: header applied to a blank slot, on an input with no header-name    *)
(* byte at its start.  The name is taken with take_while, which succeeds   *)
(* on zero bytes, so the empty name is followed by the check of the colon  *)
(* and ": v" CRLF is accepted with the slot ("", "v").                     *)

EmptyName(i) == PrefixLen(HeaderNameBytes, i) = 0

\* C11: header fails on every input whose name is empty, and no slot is
\* left with an empty name and a non-empty value.
C11_EmptyNameRejected ==
    (call.fn = "header" /\ EmptyName(call.input)) =>
        /\ ~call.ret.ok
        /\ ~(call.h.name = <<>> /\ call.h.value # <<>>)

(* C12: every failure of header is a recoverable nom error, which the      *)
(* collection loop takes as the end of the header block.  So once the      *)
(* request line has parsed, the slots hold the leading accepted lines, the *)
(* first line that is not accepted is left unread, and the result is the   *)
(* one of the body decision over the slots.                                *)

BodyDecisionOutcome ==
    IF SelectedSlots = {} THEN result = "Ok"
    ELSE IF self.headers[SelectedSlot].name = StrContentLength
         THEN ContentOutcome(SelectedValue)
         ELSE result = "Ok"

MalformedLineMet ==
    /\ Collected(msg) < Capacity
    /\ Collected(msg) < Len(msg.lines)
    /\ msg.lines[Collected(msg) + 1] \in RejectedLines

\* C12: parse never returns Headers nor Unknown; bytes that are no header
\* line end the header block and the body decision gives the result.
C12_NeverHeadersError ==
    Parsed =>
        /\ result \notin {"Headers", "Unknown"}
        /\ ValidForm(msg.reqline) => result # "RequestLine"
        /\ result # "RequestLine" =>
              /\ \A j \in 1..Collected(msg) :
                     self.headers[j] = LinePair(msg.lines[j])
              /\ BodyDecisionOutcome

C12_Witness ==
    /\ Fresh
    /\ ValidForm(msg.reqline)
    /\ MalformedLineMet
    /\ Collected(msg) >= 1
    /\ result = "Ok"

(* C13: a second parse on the same Request against a first parse on a new  *)
(* Request of the same capacity.  parse assigns method, path and version,  *)
(* the slots it fills and, on a successful extraction, the body; it resets *)
(* nothing else, so slots and body of the earlier message stay readable    *)
(* and a slot of the earlier message can be the one the body decision      *)
(* selects.                                                                *)

BlankHeaders(n) == [k \in 1..n |-> EMPTY_HEADER]
OnFreshRequest == Request_parse(Request_new(BlankHeaders(Capacity)), input)

\* C13: after parse(A) and then parse(B) on one Request the result and
\* method, path, version, headers and body are those of parse(B) on a
\* freshly constructed Request of the same capacity.
C13_ParseIndependent ==
    nparse = 2 =>
        /\ result = OnFreshRequest.result
        /\ self.method = OnFreshRequest.self.method
        /\ self.path = OnFreshRequest.self.path
        /\ self.version = OnFreshRequest.self.version
        /\ Request_headers(self) = Request_headers(OnFreshRequest.self)
        /\ self.body = OnFreshRequest.self.body

====
